---- MODULE Spec2Model ----
(***************************************************************************)
(* Batch conversion pipeline of the DeepZoom Image Converter, as coded in  *)
(* source/converter_v7.py and source/converter_v8.py: the entry points     *)
(* save_jpeg and create_deepzoom, their background drivers, the per-file   *)
(* jobs, the root.after callback queue of the Tk main loop, and the        *)
(* helpers _is_unc, _auto_workers, _basename_no_ext and _ensure_rgb, the   *)
(* output paths of a batch and v8's run transcript.                        *)
(*                                                                         *)
(* A path is a sequence of tokens: "/" and "\\" are the two separators of  *)
(* a Windows path, "C:" a drive, "NUL" an embedded null character, every   *)
(* other token a name component.                                           *)
(***************************************************************************)
EXTENDS Integers, Sequences, FiniteSets, TLC

\* ---------------------------------------------------------------- bounds
\* files in one selection
MaxFiles == 2
\* batches started in one session
MaxRuns == 2
\* error dialogs shown in one session
MaxErrors == 1
\* file and folder dialogs answered in one session
MaxPicks == 3
\* largest os.cpu_count() tried on _auto_workers
MaxCores == 6
\* longest file list tried on _auto_workers
MaxAwFiles == 2
\* os.cpu_count() of the host the batches run on
HostCores == 4
\* characters in the longest file name tried on the output stem
MaxName == 4
\* pixels in the largest image tried on _ensure_rgb
MaxPixels == 2
\* characters in the longest file name tried on the output paths
MaxOutName == 3

\* ----------------------------------------------------------------- state
VARIABLES
    version,        \* 7: converter_v7.py, 8: converter_v8.py
    HAS_DEEPZOOM,   \* whether `from deepzoom import ImageCreator` succeeded
    os_cpu_count,   \* os.cpu_count(); 0 stands for None
    cwd,            \* the process's current directory, which abspath joins
    input_files,    \* list of selected paths
    output_dir,     \* tk.StringVar: <<>> is ""
    progress_var,   \* tk.IntVar: the completed-count
    progress_max,   \* tk.IntVar: the maximum
    elapsed_total,  \* tk.StringVar
    status_jpeg,    \* tk.StringVar: <<>> is "", <<n>> is "Saved n JPEG(s)"
    status_dz,      \* tk.StringVar: <<>> is "", <<n>> is "Created n DZI(s)"
    busy,           \* v7: the root's buttons are disabled
    made_dirs,      \* number of os.makedirs calls made
    errbox,         \* messagebox.showerror calls, by kind
    picks,          \* file and folder dialogs answered so far
    uiq,            \* callbacks queued with root.after(0, ...), oldest first
    run,            \* the batches started so far, each with its driver
    aw_res7,        \* last value returned by v7's _auto_workers (0: none)
    aw_res8,        \* last value returned by v8's _auto_workers (0: none)
    log_file_stream,\* v8: the lines ConsoleRedirect.write has put in the StringIO
    safe,           \* last output stem save_jpeg.worker computed (<<>>: none)
    img,            \* the decoded image handed to _ensure_rgb
    ensure_rgb_res, \* last image returned by _ensure_rgb (<<>>: none)
    out_paths       \* the output path computed for each file of a list

vars == <<version, HAS_DEEPZOOM, os_cpu_count, cwd, input_files, output_dir,
          progress_var, progress_max, elapsed_total, status_jpeg, status_dz,
          busy, made_dirs, errbox, picks, uiq, run, aw_res7, aw_res8,
          log_file_stream, safe, img, ensure_rgb_res, out_paths>>

env == <<version, HAS_DEEPZOOM, os_cpu_count, cwd>>

\* what only the calls of the pure helpers on drawn inputs change
fn_state == <<aw_res7, aw_res8, safe, img, ensure_rgb_res, out_paths>>

ui_state == <<progress_var, progress_max, elapsed_total, status_jpeg,
              status_dz, busy>>

\* --------------------------------------------------------------- helpers
Max(a, b) == IF a >= b THEN a ELSE b

Min(a, b) == IF a <= b THEN a ELSE b

RECURSIVE SumSeq(_)
SumSeq(s) == IF s = <<>> THEN 0 ELSE Head(s) + SumSeq(Tail(s))

\* ----------------------------------------------------------------- paths
BS == "\\"

LocalCwd == <<"C:", BS, "work">>

UncCwd == <<BS, BS, "srv", BS, "share", BS, "work">>

PathGood == <<"C:", "/", "a.tif">>

PathMissing == <<"C:", "/", "m.tif">>

PathBad == <<"C:", "/", "b.tif">>

PathUnc == <<"/", "/", "srv", "/", "share", "/", "u.tif">>

PathUncBS == <<BS, BS, "srv", BS, "share", BS, "u.tif">>

PathRel == <<"r.tif">>

PathRooted == <<"/", "r.tif">>

PathNul == <<"C:", "/", "NUL">>

LocalOut == <<"C:", "/", "out">>

UncOut == <<"/", "/", "srv", "/", "share", "/", "out">>

\* what os.path.exists and the decoder find at a source path
SourceState(p) ==
    IF p = PathMissing THEN "missing"
    ELSE IF p = PathBad THEN "bad"
    ELSE "good"

\* str.startswith
startswith(s, prefix) ==
    /\ Len(s) >= Len(prefix)
    /\ SubSeq(s, 1, Len(prefix)) = prefix

\* ntpath.normpath, as far as separators go: "/" becomes "\\"
normsep(p) == [i \in 1..Len(p) |-> IF p[i] = "/" THEN BS ELSE p[i]]

\* ntpath.splitdrive(cwd)[0]: the drive or the \\server\share prefix
cwd_drive == IF startswith(cwd, <<BS, BS>>) THEN SubSeq(cwd, 1, 5) ELSE SubSeq(cwd, 1, 1)

\* os.path.abspath on Windows: [raised, val]
abspath(p) ==
    LET n == normsep(p)
    IN  IF \E i \in 1..Len(p) : p[i] = "NUL"
        THEN [raised |-> TRUE, val |-> <<>>]
        ELSE IF n = <<>>
        THEN [raised |-> FALSE, val |-> cwd]
        ELSE IF Len(n) >= 3 /\ n[1] = BS /\ n[2] = BS /\ n[3] # BS
        THEN [raised |-> FALSE, val |-> n]
        ELSE IF Len(n) >= 2 /\ n[1] = "C:" /\ n[2] = BS
        THEN [raised |-> FALSE, val |-> n]
        ELSE IF n[1] = BS
        THEN [raised |-> FALSE, val |-> cwd_drive \o n]
        ELSE [raised |-> FALSE, val |-> cwd \o <<BS>> \o n]

is_unc_no_norm(p) == startswith(p, <<BS, BS>>)

\* _is_unc: try abspath(p).startswith("\\\\") except: False
is_unc(p) ==
    LET r == abspath(p)
    IN  IF r.raised THEN FALSE ELSE startswith(r.val, <<BS, BS>>)

any_unc(files) == \E i \in 1..Len(files) : is_unc(files[i])

\* os.cpu_count() or 4
cores == IF os_cpu_count = 0 THEN 4 ELSE os_cpu_count

auto_workers_uncapped(files, out_dir) ==
    IF files = <<>> THEN 1
    ELSE IF is_unc(out_dir) \/ any_unc(files) THEN 1
    ELSE Max(1, cores \div 2)

\* v7 _auto_workers
auto_workers_v7(files, out_dir) ==
    IF files = <<>> THEN 1
    ELSE IF is_unc(out_dir) \/ any_unc(files) THEN 1
    ELSE LET w == Max(1, cores \div 2) IN Min(w, Len(files))

\* v8 _auto_workers
auto_workers_v8(files, out_dir) ==
    IF files = <<>> THEN 1
    ELSE IF is_unc(out_dir) \/ any_unc(files) THEN 1
    ELSE Max(1, Min(Len(files), cores \div 2))


\* ------------------------------------------------------ per-file outcomes
\* Image.open / _ensure_rgb / im.save / creator.create raise on this source
convert_raises(src) == SourceState(src) = "bad"

jpeg_one_nocatch(src) ==
    IF SourceState(src) = "missing" THEN "skip"
    ELSE IF convert_raises(src) THEN "raise"
    ELSE "ok"

\* body of the for loop of save_jpeg.worker (v7 152-185, v8 138-158):
\* os.path.exists, then the conversion inside try/except Exception
jpeg_one(src) ==
    IF SourceState(src) = "missing" THEN "skip"
    ELSE IF convert_raises(src) THEN "err"
    ELSE "ok"

\* v8 save_jpeg.worker: `continue` on a missing file skips root.after
jpeg_posts_progress(outcome) == version = 7 \/ outcome # "skip"

\* v7 create_deepzoom.run_parallel.job around _dz_convert_one
dz_job_v7(src) ==
    IF SourceState(src) = "missing" THEN "skip"
    ELSE IF convert_raises(src) THEN "err"
    ELSE "ok"

\* v8 create_deepzoom.worker loop body around _dz_convert_one, which has no
\* os.path.exists test: creator.create raises on a missing source too
dz_one_v8(src) ==
    IF SourceState(src) = "missing" \/ convert_raises(src) THEN "err"
    ELSE "ok"

\* --------------------------------------------------------------- batches
ProgressMaxDefault == 100

\* no image has been decoded
NoImage == [mode |-> "none", size |-> <<0, 0>>, px |-> <<>>]

Selectable == {PathGood, PathMissing, PathBad}

OutDirs == {LocalOut, UncOut}

SeqsUpTo(S, n) == UNION {[1..k -> S] : k \in 0..n}

\* what askopenfilenames can return: distinct files, in order
Selections(S, n) ==
    {f \in SeqsUpTo(S, n) : f # <<>> /\ \A i, j \in 1..Len(f) : i # j => f[i] # f[j]}

Callback(kind, b, val) == [kind |-> kind, b |-> b, val |-> val]

\* one line written through sys.stdout: the n-th line of run b, 0 for its
\* "Done." line; b = 0 for the line a file or folder dialog prints
LogLine(b, n) == <<b, n>>

\* ConsoleRedirect.write: v8 appends the message to log_file_stream, which
\* nothing ever truncates; v7 has the text widget only. The stream is kept
\* as the set of its lines.
console_write(lines) ==
    log_file_stream' = IF version = 8 THEN log_file_stream \cup lines
                       ELSE log_file_stream

\* the ImageCreator instance a task hands to _dz_convert_one is named by
\* the _dz_make_creator call that constructed it: the call of task k is k,
\* the call of v8's worker before its loop is DriverCreator
DriverCreator == 0

\* creator.create has not been called for the file
NoCreator == -1

\* a batch as the entry point leaves it: sel and made are input_files and
\* the directory given to os.makedirs at the click
NewRun(mode, workers) ==
    [mode |-> mode, pc |-> "start", total |-> Len(input_files),
     workers |-> workers, files |-> <<>>, out |-> <<>>, taken |-> {},
     i |-> 0, ok |-> 0, skipped |-> 0, errors |-> 0,
     fault |-> "none", summary |-> <<>>, shown |-> 0,
     sel |-> input_files, made |-> output_dir,
     order |-> <<>>, invoked |-> {}, creator |-> <<>>]

Runs == 1..Len(run)

\* the buttons of the root are enabled (v8 never disables them)
buttons_enabled == ~busy

Init ==
    /\ version \in {7, 8}
    /\ HAS_DEEPZOOM \in BOOLEAN
    /\ os_cpu_count = HostCores
    /\ cwd = LocalCwd
    /\ input_files = <<>>
    /\ output_dir = <<>>
    /\ progress_var = 0
    /\ progress_max = ProgressMaxDefault
    /\ elapsed_total = ""
    /\ status_jpeg = <<>>
    /\ status_dz = <<>>
    /\ busy = FALSE
    /\ made_dirs = 0
    /\ errbox = [missing |-> 0, nodz |-> 0]
    /\ picks = 0
    /\ uiq = <<>>
    /\ run = <<>>
    /\ aw_res7 = 0
    /\ aw_res8 = 0
    /\ log_file_stream = {}
    /\ safe = <<>>
    /\ img = NoImage
    /\ ensure_rgb_res = <<>>
    /\ out_paths = <<>>

\* choose_input: the dialog returns a non-empty list
choose_input ==
    /\ buttons_enabled
    /\ picks < MaxPicks
    /\ picks' = picks + 1
    /\ \E files \in Selections(Selectable, MaxFiles) :
           input_files' = files
    /\ console_write({LogLine(0, picks + 1)})
    /\ UNCHANGED <<env, output_dir, ui_state, made_dirs, errbox, uiq, run,
                   fn_state>>

\* choose_output: the dialog returns a folder
choose_output ==
    /\ buttons_enabled
    /\ picks < MaxPicks
    /\ picks' = picks + 1
    /\ \E folder \in OutDirs : output_dir' = folder
    /\ console_write({LogLine(0, picks + 1)})
    /\ UNCHANGED <<env, input_files, ui_state, made_dirs, errbox, uiq, run,
                   fn_state>>

missing_input == input_files = <<>> \/ output_dir = <<>>

\* the lines both entry points run once the preconditions hold
start_batch(mode, workers) ==
    /\ Len(run) < MaxRuns
    /\ made_dirs' = made_dirs + 1
    /\ progress_max' = Len(input_files)
    /\ progress_var' = 0
    /\ elapsed_total' = IF version = 7 \/ mode = "jpeg" THEN "" ELSE elapsed_total
    /\ busy' = (version = 7)
    /\ run' = Append(run, NewRun(mode, workers))
    /\ UNCHANGED <<env, input_files, output_dir, status_jpeg, status_dz,
                   errbox, picks, uiq, log_file_stream, fn_state>>

show_error(kind) ==
    /\ errbox.missing + errbox.nodz < MaxErrors
    /\ errbox' = [errbox EXCEPT ![kind] = @ + 1]
    /\ UNCHANGED <<env, input_files, output_dir, ui_state, made_dirs, picks,
                   uiq, run, log_file_stream, fn_state>>

save_jpeg_unchecked ==
    /\ buttons_enabled
    /\ \/ missing_input /\ show_error("missing")
       \/ input_files # <<>> /\ start_batch("jpeg", 1)

save_jpeg ==
    /\ buttons_enabled
    /\ \/ missing_input /\ show_error("missing")
       \/ ~missing_input /\ start_batch("jpeg", 1)

dz_workers ==
    IF version = 7 THEN auto_workers_v7(input_files, output_dir) ELSE 1

create_deepzoom_unchecked ==
    /\ buttons_enabled
    /\ \/ ~HAS_DEEPZOOM /\ missing_input /\ show_error("nodz")
       \/ HAS_DEEPZOOM /\ missing_input /\ show_error("missing")
       \/ ~missing_input /\ start_batch("dz", dz_workers)

create_deepzoom ==
    /\ buttons_enabled
    /\ \/ ~HAS_DEEPZOOM /\ show_error("nodz")
       \/ HAS_DEEPZOOM /\ missing_input /\ show_error("missing")
       \/ HAS_DEEPZOOM /\ ~missing_input /\ start_batch("dz", dz_workers)


\* ---------------------------------------------------------------- drivers
post(cb) == uiq' = Append(uiq, cb)

\* nothing but run[b] and the callback queue changes in a driver step
driver_frame == UNCHANGED <<env, input_files, output_dir, ui_state, made_dirs,
                            errbox, picks, fn_state>>

after_loop == IF version = 7 THEN "fin1" ELSE "log"

\* the driver thread starts: `for i, src in enumerate(input_files, 1)` or
\* `[ex.submit(job, src) for src in input_files]` binds the list it walks
driver_begin(b) ==
    /\ run[b].pc = "start"
    /\ run' = [run EXCEPT ![b].pc = "loop",
                          ![b].files = input_files,
                          ![b].out = [k \in 1..Len(input_files) |->
                                        IF version = 7 /\ run[b].mode = "dz"
                                        THEN "queued" ELSE "none"],
                          ![b].creator = [k \in 1..Len(input_files) |-> NoCreator]]
    /\ UNCHANGED <<uiq, log_file_stream>>
    /\ driver_frame

jpeg_step_skip_uncounted(b) ==
    /\ run[b].mode = "jpeg"
    /\ run[b].pc = "loop"
    /\ run[b].i < Len(run[b].files)
    /\ LET i == run[b].i + 1
           outcome == jpeg_one(run[b].files[i])
           last == i = Len(run[b].files)
       IN  /\ run' = [run EXCEPT
                       ![b].i = i,
                       ![b].out[i] = outcome,
                       ![b].ok = @ + (IF outcome = "ok" THEN 1 ELSE 0),
                       ![b].errors = @ + (IF outcome = "err" THEN 1 ELSE 0),
                       ![b].pc = IF last THEN after_loop ELSE "loop"]
           /\ console_write({LogLine(b, i)})
           /\ IF jpeg_posts_progress(outcome)
              THEN post(Callback("progress", b, i))
              ELSE UNCHANGED uiq
    /\ driver_frame

\* one iteration of the for loop of save_jpeg.worker
jpeg_step(b) ==
    /\ run[b].mode = "jpeg"
    /\ run[b].pc = "loop"
    /\ run[b].i < Len(run[b].files)
    /\ LET i == run[b].i + 1
           outcome == jpeg_one(run[b].files[i])
           last == i = Len(run[b].files)
       IN  IF outcome = "raise"
           THEN /\ run' = [run EXCEPT ![b].pc = "dead", ![b].fault = "job"]
                /\ UNCHANGED <<uiq, log_file_stream>>
           ELSE /\ run' = [run EXCEPT
                       ![b].i = i,
                       ![b].out[i] = outcome,
                       ![b].ok = @ + (IF outcome = "ok" THEN 1 ELSE 0),
                       ![b].errors = @ + (IF outcome = "ok" THEN 0 ELSE 1),
                       ![b].pc = IF last THEN after_loop ELSE "loop"]
                /\ console_write({LogLine(b, i)})
                /\ IF jpeg_posts_progress(outcome)
                   THEN post(Callback("progress", b, i))
                   ELSE UNCHANGED uiq
    /\ driver_frame

\* one iteration of the for loop of v8 create_deepzoom.worker
dz8_step(b) ==
    /\ version = 8
    /\ run[b].mode = "dz"
    /\ run[b].pc = "loop"
    /\ run[b].i < Len(run[b].files)
    /\ LET i == run[b].i + 1
           outcome == dz_one_v8(run[b].files[i])
           last == i = Len(run[b].files)
       IN  /\ run' = [run EXCEPT
                       ![b].i = i,
                       ![b].out[i] = outcome,
                       ![b].invoked = @ \cup {i},
                       ![b].creator[i] = DriverCreator,
                       ![b].ok = @ + (IF outcome = "ok" THEN 1 ELSE 0),
                       ![b].pc = IF last THEN after_loop ELSE "loop"]
           /\ console_write({LogLine(b, i)})
           /\ post(Callback("progress", b, i))
    /\ driver_frame

running(b) == {k \in 1..Len(run[b].out) : run[b].out[k] = "running"}

\* v7: a pool thread takes the oldest queued job
job_start(b, k) ==
    /\ version = 7
    /\ run[b].mode = "dz"
    /\ run[b].pc = "loop"
    /\ k \in 1..Len(run[b].out)
    /\ run[b].out[k] = "queued"
    /\ \A j \in 1..(k - 1) : run[b].out[j] # "queued"
    /\ Cardinality(running(b)) < run[b].workers
    /\ run' = [run EXCEPT ![b].out[k] = "running"]
    /\ UNCHANGED <<uiq, log_file_stream>>
    /\ driver_frame

\* v7: job(src) returns and its future completes
job_finish(b, k) ==
    /\ version = 7
    /\ run[b].mode = "dz"
    /\ run[b].pc = "loop"
    /\ k \in 1..Len(run[b].out)
    /\ run[b].out[k] = "running"
    /\ LET status == dz_job_v7(run[b].files[k])
       IN  run' = [run EXCEPT
                     ![b].out[k] = status,
                     ![b].invoked = IF status = "skip" THEN @ ELSE @ \cup {k},
                     ![b].creator[k] = IF status = "skip" THEN @ ELSE k]
    /\ UNCHANGED <<uiq, log_file_stream>>
    /\ driver_frame

dz7_collect_by_index(b, k) ==
    /\ version = 7
    /\ run[b].mode = "dz"
    /\ run[b].pc = "loop"
    /\ k \in 1..Len(run[b].out)
    /\ k \notin run[b].taken
    /\ run[b].out[k] \in {"ok", "skip", "err"}
    /\ LET status == run[b].out[k]
           done_count == run[b].i + 1
           last == done_count = Len(run[b].files)
       IN  /\ run' = [run EXCEPT
                       ![b].i = done_count,
                       ![b].taken = @ \cup {k},
                       ![b].order = Append(@, k),
                       ![b].ok = @ + (IF status = "ok" THEN 1 ELSE 0),
                       ![b].skipped = @ + (IF status = "skip" THEN 1 ELSE 0),
                       ![b].errors = @ + (IF status = "err" THEN 1 ELSE 0),
                       ![b].pc = IF last THEN "fin1" ELSE "loop"]
           /\ post(Callback("progress", b, k))
    /\ UNCHANGED log_file_stream
    /\ driver_frame

\* v7: one iteration of `for fut in as_completed(futures)`
dz7_collect(b, k) ==
    /\ version = 7
    /\ run[b].mode = "dz"
    /\ run[b].pc = "loop"
    /\ k \in 1..Len(run[b].out)
    /\ k \notin run[b].taken
    /\ run[b].out[k] \in {"ok", "skip", "err", "raise"}
    /\ LET status == run[b].out[k]
           done_count == run[b].i + 1
           last == done_count = Len(run[b].files)
       IN  IF status = "raise"
           THEN /\ run' = [run EXCEPT ![b].pc = "dead", ![b].fault = "job"]
                /\ UNCHANGED uiq
           ELSE /\ run' = [run EXCEPT
                       ![b].i = done_count,
                       ![b].taken = @ \cup {k},
                       ![b].order = Append(@, k),
                       ![b].ok = @ + (IF status = "ok" THEN 1 ELSE 0),
                       ![b].skipped = @ + (IF status = "skip" THEN 1 ELSE 0),
                       ![b].errors = @ + (IF status = "err" THEN 1 ELSE 0),
                       ![b].pc = IF last THEN "fin1" ELSE "loop"]
                /\ post(Callback("progress", b, done_count))
    /\ UNCHANGED log_file_stream
    /\ driver_frame

\* v7: status_jpeg.set / status_dz.set in the driver thread, then
\* root.after(0, elapsed_total.set)
driver_fin1(b) ==
    /\ version = 7
    /\ run[b].pc = "fin1"
    /\ run' = [run EXCEPT ![b].pc = "fin2"]
    /\ IF run[b].mode = "jpeg"
       THEN status_jpeg' = <<run[b].ok>> /\ UNCHANGED status_dz
       ELSE status_dz' = <<run[b].ok>> /\ UNCHANGED status_jpeg
    /\ post(Callback("elapsed", b, 0))
    /\ UNCHANGED <<env, input_files, output_dir, progress_var, progress_max,
                   elapsed_total, busy, made_dirs, errbox, picks,
                   log_file_stream, fn_state>>

\* v7: root.after(0, lambda: _set_busy(False))
driver_fin2_direct(b) ==
    /\ version = 7
    /\ run[b].pc = "fin2"
    /\ run' = [run EXCEPT ![b].pc = "fin3"]
    /\ busy' = FALSE
    /\ UNCHANGED <<env, input_files, output_dir, progress_var, progress_max,
                   elapsed_total, status_jpeg, status_dz, made_dirs, errbox,
                   picks, uiq, log_file_stream, fn_state>>

driver_fin2(b) ==
    /\ version = 7
    /\ run[b].pc = "fin2"
    /\ run' = [run EXCEPT ![b].pc = "fin3"]
    /\ post(Callback("unbusy", b, 0))
    /\ UNCHANGED log_file_stream
    /\ driver_frame

\* v8: the "Done." line is printed, then open(get_log_file_path(), "w")
\* and f.write(log_file_stream.getvalue()) succeed: the file written holds
\* log_file_stream as this step leaves it
log_written(b) ==
    /\ version = 8
    /\ run[b].pc = "log"
    /\ console_write({LogLine(b, 0)})
    /\ run' = [run EXCEPT ![b].pc = "fin3"]
    /\ UNCHANGED uiq
    /\ driver_frame

\* v8: open or write raises OSError, which nothing in the driver catches
log_failed(b) ==
    /\ version = 8
    /\ run[b].pc = "log"
    /\ console_write({LogLine(b, 0)})
    /\ run' = [run EXCEPT ![b].pc = "dead", ![b].fault = "log"]
    /\ UNCHANGED uiq
    /\ driver_frame

\* the counters the summary dialog's text holds
summary_of(r) ==
    IF r.mode = "jpeg" THEN <<r.ok, r.errors>>
    ELSE IF version = 7 THEN <<r.ok, r.skipped, r.errors>>
    ELSE <<r.ok>>

\* root.after(0, lambda: messagebox.showinfo(...)), the driver's last line
driver_fin3(b) ==
    /\ run[b].pc = "fin3"
    /\ run' = [run EXCEPT ![b].pc = "done", ![b].summary = summary_of(run[b])]
    /\ post(Callback("summary", b, 0))
    /\ UNCHANGED log_file_stream
    /\ driver_frame

\* ------------------------------------------------- presentation context
\* the Tk main loop runs the oldest root.after callback
ui_process ==
    /\ uiq # <<>>
    /\ LET cb == Head(uiq)
       IN  /\ uiq' = Tail(uiq)
           /\ progress_var' = IF cb.kind = "progress" THEN cb.val ELSE progress_var
           /\ elapsed_total' = IF cb.kind = "elapsed" THEN "Last run elapsed" ELSE elapsed_total
           /\ busy' = IF cb.kind = "unbusy" THEN FALSE ELSE busy
           /\ run' = IF cb.kind = "summary"
                     THEN [run EXCEPT ![cb.b].shown = @ + 1]
                     ELSE run
    /\ UNCHANGED <<env, input_files, output_dir, progress_max, status_jpeg,
                   status_dz, made_dirs, errbox, picks, log_file_stream,
                   fn_state>>

Next ==
    \/ choose_input
    \/ choose_output
    \/ save_jpeg
    \/ create_deepzoom
    \/ \E b \in Runs : driver_begin(b)
    \/ \E b \in Runs : jpeg_step(b)
    \/ \E b \in Runs : dz8_step(b)
    \/ \E b \in Runs, k \in 1..MaxFiles : job_start(b, k)
    \/ \E b \in Runs, k \in 1..MaxFiles : job_finish(b, k)
    \/ \E b \in Runs, k \in 1..MaxFiles : dz7_collect(b, k)
    \/ \E b \in Runs : driver_fin1(b)
    \/ \E b \in Runs : driver_fin2(b)
    \/ \E b \in Runs : log_written(b)
    \/ \E b \in Runs : log_failed(b)
    \/ \E b \in Runs : driver_fin3(b)
    \/ ui_process

Spec == Init /\ [][Next]_vars

\* ------------------------------------------------- converter_v7.py alone
Init7 == Init /\ version = 7

\* a step of the background thread of batch b, or of one of its pool threads
driver_step7(b) ==
    /\ b \in Runs
    /\ \/ driver_begin(b)
       \/ jpeg_step(b)
       \/ \E k \in 1..MaxFiles : job_start(b, k)
       \/ \E k \in 1..MaxFiles : job_finish(b, k)
       \/ \E k \in 1..MaxFiles : dz7_collect(b, k)
       \/ driver_fin1(b)
       \/ driver_fin2(b)
       \/ driver_fin3(b)

Next7 ==
    \/ choose_input
    \/ choose_output
    \/ save_jpeg
    \/ create_deepzoom
    \/ \E b \in 1..MaxRuns : driver_step7(b)
    \/ ui_process

\* a started thread keeps being scheduled and root.mainloop() keeps running
\* the callbacks queued with root.after; the user owes no click
Fairness7 ==
    /\ \A b \in 1..MaxRuns : WF_vars(driver_step7(b))
    /\ WF_vars(ui_process)

Spec7 == Init7 /\ [][Next7]_vars /\ Fairness7


\* ------------------------------------------- _auto_workers on its inputs
PathUncNul == <<"/", "/", "srv", "/", "share", "/", "NUL">>

RelOut == <<"out">>

AwPaths == {PathGood, PathUnc, PathUncBS, PathRel, PathRooted, PathNul, PathUncNul}

AwDirs == {LocalOut, UncOut, RelOut}

InitAW ==
    /\ version = 7
    /\ HAS_DEEPZOOM = TRUE
    /\ os_cpu_count \in 0..MaxCores
    /\ cwd \in {LocalCwd, UncCwd}
    /\ input_files \in SeqsUpTo(AwPaths, MaxAwFiles)
    /\ output_dir \in AwDirs
    /\ progress_var = 0
    /\ progress_max = ProgressMaxDefault
    /\ elapsed_total = ""
    /\ status_jpeg = <<>>
    /\ status_dz = <<>>
    /\ busy = FALSE
    /\ made_dirs = 0
    /\ errbox = [missing |-> 0, nodz |-> 0]
    /\ picks = 0
    /\ uiq = <<>>
    /\ run = <<>>
    /\ aw_res7 = 0
    /\ aw_res8 = 0
    /\ log_file_stream = {}
    /\ safe = <<>>
    /\ img = NoImage
    /\ ensure_rgb_res = <<>>
    /\ out_paths = <<>>

call_auto_workers_v7 ==
    /\ aw_res7' = auto_workers_v7(input_files, output_dir)
    /\ UNCHANGED <<env, input_files, output_dir, ui_state, made_dirs, errbox,
                   picks, uiq, run, aw_res8, log_file_stream, safe, img,
                   ensure_rgb_res, out_paths>>

call_auto_workers_v8 ==
    /\ aw_res8' = auto_workers_v8(input_files, output_dir)
    /\ UNCHANGED <<env, input_files, output_dir, ui_state, made_dirs, errbox,
                   picks, uiq, run, aw_res7, log_file_stream, safe, img,
                   ensure_rgb_res, out_paths>>

NextAW == call_auto_workers_v7 \/ call_auto_workers_v8

SpecAW == InitAW /\ [][NextAW]_vars

\* what the session's variables hold when only a pure helper is exercised
no_session ==
    /\ HAS_DEEPZOOM = TRUE
    /\ os_cpu_count = HostCores
    /\ cwd = LocalCwd
    /\ progress_var = 0
    /\ progress_max = ProgressMaxDefault
    /\ elapsed_total = ""
    /\ status_jpeg = <<>>
    /\ status_dz = <<>>
    /\ busy = FALSE
    /\ made_dirs = 0
    /\ errbox = [missing |-> 0, nodz |-> 0]
    /\ picks = 0
    /\ uiq = <<>>
    /\ run = <<>>
    /\ aw_res7 = 0
    /\ aw_res8 = 0
    /\ log_file_stream = {}

\* ------------------------------------------ the output stem of save_jpeg
\* In the paths below a name is spelled character by character: "a" and
\* "1" are alphanumeric characters, "TAB" is a control character, "#" a
\* punctuation character.
SanChars == {"a", "1", ".", "_", "-", " ", "/", BS, "TAB", "#"}

\* what askopenfilenames returns: a drive, a separator and a name
SanPaths == {<<"C:", "/">> \o s : s \in SeqsUpTo(SanChars, MaxName)}

\* str.isalnum on one character
isalnum(c) == c \in {"a", "1"}

\* index of the last separator of p, 0 if there is none
last_sep(p) ==
    LET S == {i \in 1..Len(p) : p[i] \in {"/", BS}}
    IN  IF S = {} THEN 0 ELSE CHOOSE i \in S : \A j \in S : j <= i

\* ntpath.basename: what follows the drive and the last separator
basename(p) ==
    LET q == IF p # <<>> /\ Head(p) = "C:" THEN Tail(p) ELSE p
    IN  SubSeq(q, last_sep(q) + 1, Len(q))

\* os.path.splitext(name)[0]: the name up to its last period, unless only
\* periods come before that period
splitext_root(name) ==
    LET D == {i \in 1..Len(name) : name[i] = "."}
        dot == IF D = {} THEN 0 ELSE CHOOSE i \in D : \A j \in D : j <= i
    IN  IF dot > 0 /\ \E j \in 1..(dot - 1) : name[j] # "."
        THEN SubSeq(name, 1, dot - 1)
        ELSE name

\* _basename_no_ext
basename_no_ext(path) == splitext_root(basename(path))

\* str.rstrip(". ")
rstrip(s) ==
    LET K == {i \in 1..Len(s) : s[i] \notin {".", " "}}
    IN  IF K = {} THEN <<>>
        ELSE SubSeq(s, 1, CHOOSE i \in K : \A j \in K : j <= i)

sanitize_none(base) == base

\* "".join(c if c.isalnum() or c in "._- " else "_" for c in base)
sanitize(base) ==
    [i \in 1..Len(base) |->
        IF isalnum(base[i]) \/ base[i] \in {".", "_", "-", " "}
        THEN base[i] ELSE "_"]

\* `safe` of save_jpeg.worker: the stem of the output file name
safe_stem(src) == sanitize(rstrip(basename_no_ext(src)))

InitSan ==
    /\ version \in {7, 8}
    /\ no_session
    /\ input_files \in {<<p>> : p \in SanPaths}
    /\ output_dir = LocalOut
    /\ safe = <<>>
    /\ img = NoImage
    /\ ensure_rgb_res = <<>>
    /\ out_paths = <<>>

call_safe_stem ==
    /\ safe' = <<safe_stem(input_files[1])>>
    /\ UNCHANGED <<env, input_files, output_dir, ui_state, made_dirs, errbox,
                   picks, uiq, run, aw_res7, aw_res8, log_file_stream, img,
                   ensure_rgb_res, out_paths>>

NextSan == call_safe_stem

SpecSan == InitSan /\ [][NextSan]_vars

\* ----------------------------------------------------------- _ensure_rgb
\* An image is its mode, its size and its pixels in raster order; a pixel
\* is the tuple of its bands (a palette index in mode P).
Levels == {0, 100, 255}

Alphas == {0, 128, 255}

Colours == {<<0, 0, 0>>, <<200, 100, 0>>, <<255, 255, 255>>}

Palette == <<<<0, 0, 0>>, <<200, 100, 0>>>>

Sizes == {<<w, 1>> : w \in 1..MaxPixels}

PixelsOf(mode) ==
    IF mode = "RGBA" THEN {c \o <<a>> : c \in Colours, a \in Alphas}
    ELSE IF mode = "LA" THEN {<<l, a>> : l \in Levels, a \in Alphas}
    ELSE IF mode = "RGB" THEN Colours
    ELSE IF mode = "L" THEN {<<l>> : l \in Levels}
    ELSE {<<n>> : n \in 1..Len(Palette)}

Modes == {"RGBA", "LA", "RGB", "L", "P"}

Images ==
    {[mode |-> m, size |-> s, px |-> p] :
        m \in Modes, s \in Sizes, p \in SeqsUpTo(UNION {PixelsOf(n) : n \in Modes}, MaxPixels)}

DecodedImages ==
    {im \in Images :
        /\ Len(im.px) = im.size[1] * im.size[2]
        /\ \A i \in 1..Len(im.px) : im.px[i] \in PixelsOf(im.mode)}

\* the colour bands the imaging core keeps for a pixel of an RGBA or LA
\* image: LA is stored as (L, L, L, A)
rgb_bands(mode, p) ==
    IF mode = "RGBA" THEN SubSeq(p, 1, 3) ELSE <<p[1], p[1], p[1]>>

\* paste with an L mask, per band: (in1 * (255 - mask) + in2 * mask) / 255
\* in the core's rounding integer arithmetic
blend8(mask, in1, in2) ==
    LET tmp == in1 * (255 - mask) + in2 * mask + 128
    IN  ((tmp \div 256) + tmp) \div 256

\* Image.convert("RGB")
convert_rgb(im) ==
    [mode |-> "RGB", size |-> im.size,
     px |-> [i \in 1..Len(im.px) |->
               IF im.mode = "P" THEN Palette[im.px[i][1]]
               ELSE IF im.mode \in {"L", "LA"}
               THEN <<im.px[i][1], im.px[i][1], im.px[i][1]>>
               ELSE SubSeq(im.px[i], 1, 3)]]

ensure_rgb_convert_only(im) ==
    IF im.mode = "RGB" THEN im ELSE convert_rgb(im)

\* _ensure_rgb: Image.new("RGB", img.size, (255, 255, 255)), then
\* bg.paste(img, mask=img.split()[-1])
ensure_rgb(im) ==
    IF im.mode \in {"RGBA", "LA"}
    THEN [mode |-> "RGB", size |-> im.size,
          px |-> [i \in 1..Len(im.px) |->
                    LET mask == im.px[i][Len(im.px[i])]
                        src == rgb_bands(im.mode, im.px[i])
                    IN  [c \in 1..3 |-> blend8(mask, 255, src[c])]]]
    ELSE IF im.mode = "P" THEN convert_rgb(im)
    ELSE IF im.mode # "RGB" THEN convert_rgb(im)
    ELSE im

InitRGB ==
    /\ version \in {7, 8}
    /\ no_session
    /\ input_files = <<>>
    /\ output_dir = <<>>
    /\ safe = <<>>
    /\ img \in DecodedImages
    /\ ensure_rgb_res = <<>>
    /\ out_paths = <<>>

call_ensure_rgb ==
    /\ ensure_rgb_res' = <<ensure_rgb(img)>>
    /\ UNCHANGED <<env, input_files, output_dir, ui_state, made_dirs, errbox,
                   picks, uiq, run, aw_res7, aw_res8, log_file_stream, safe,
                   img, out_paths>>

NextRGB == call_ensure_rgb

SpecRGB == InitRGB /\ [][NextRGB]_vars

\* ------------------------------------------ the output paths of a batch
\* the characters the names of one selection are spelled with: "." splits
\* off the extension, "#" is a character the JPEG stem replaces by "_"
OutChars == {"a", "#", "_", "."}

\* what one askopenfilenames call returns: files of one folder
OutFiles == {<<"C:", "/">> \o s : s \in SeqsUpTo(OutChars, MaxOutName) \ {<<>>}}

\* ntpath.join(outdir, name) for a name without a drive or separator
join(outdir, name) ==
    IF outdir = <<>> \/ outdir[Len(outdir)] \in {"/", BS, "C:"}
    THEN outdir \o name
    ELSE outdir \o <<BS>> \o name

\* out_path of save_jpeg.worker
jpeg_out_path(src, outdir) == join(outdir, safe_stem(src) \o <<".jpg">>)

\* dzi_path of _dz_convert_one
dzi_path(src, outdir) == join(outdir, basename_no_ext(src) \o <<".dzi">>)

InitOut ==
    /\ version \in {7, 8}
    /\ no_session
    /\ input_files \in Selections(OutFiles, MaxFiles)
    /\ output_dir = LocalOut
    /\ safe = <<>>
    /\ img = NoImage
    /\ ensure_rgb_res = <<>>
    /\ out_paths = <<>>

out_frame == UNCHANGED <<env, input_files, output_dir, ui_state, made_dirs,
                         errbox, picks, uiq, run, aw_res7, aw_res8,
                         log_file_stream, safe, img, ensure_rgb_res>>

\* the out_path of every file of the list, as the JPEG loop builds it
call_jpeg_out_paths ==
    /\ out_paths' = [k \in 1..Len(input_files) |->
                       jpeg_out_path(input_files[k], output_dir)]
    /\ out_frame

\* the dzi_path of every file of the list, as the DeepZoom jobs build it
call_dzi_paths ==
    /\ out_paths' = [k \in 1..Len(input_files) |->
                       dzi_path(input_files[k], output_dir)]
    /\ out_frame

NextOut == call_jpeg_out_paths \/ call_dzi_paths

SpecOut == InitOut /\ [][NextOut]_vars

\* ------------------------------------------------------------ properties
\* run b has left its loop over the files
loop_over(b) ==
    \/ run[b].pc \in {"log", "fin1", "fin2", "fin3", "done"}
    \/ run[b].pc = "dead" /\ run[b].fault = "log"

pending(b, kinds) == \E n \in 1..Len(uiq) : uiq[n].b = b /\ uiq[n].kind \in kinds

AllKinds == {"progress", "elapsed", "unbusy", "summary"}

\* the driver of run b has returned or died
finished(b) == run[b].pc \in {"done", "dead"}

\* a path that names a network share, told from its spelling and the
\* current directory alone
IsNetworkPath(p) ==
    \/ p \in {PathUnc, PathUncBS, UncOut}
    \/ cwd = UncCwd /\ p \in {PathRel, PathRooted, RelOut}

Unclassifiable(p) == p \in {PathNul, PathUncNul}

HasNetworkPath ==
    \/ IsNetworkPath(output_dir)
    \/ \E n \in 1..Len(input_files) : IsNetworkPath(input_files[n])

HalfCores == (IF os_cpu_count = 0 THEN 4 ELSE os_cpu_count) \div 2

ExpectedWorkers ==
    LET n == Len(input_files)
        m == IF n <= HalfCores THEN n ELSE HalfCores
    IN  IF m >= 1 THEN m ELSE 1

\* C1: whenever a run has handed its summary to the presentation context,
\* the counters the summary reports add up to the number of files submitted.
C1_CountersAddUp ==
    \A b \in Runs :
        run[b].summary # <<>> => SumSeq(run[b].summary) = Len(run[b].files)

\* C2: once the loop of a run is over and all its progress callbacks have
\* been applied, with no other run's progress in between, the
\* completed-count equals the number of files submitted.
C2_ProgressComplete ==
    \A b \in Runs :
        ( /\ b = Len(run)
          /\ loop_over(b)
          /\ ~pending(b, {"progress"})
          /\ \A c \in 1..(b - 1) : loop_over(c) /\ ~pending(c, {"progress"}) )
        => progress_var = Len(run[b].files)

C3_State ==
    /\ progress_var <= progress_max
    /\ \A b \in Runs :
           (b = Len(run) /\ run[b].pc # "start") => progress_max = Len(run[b].files)

\* C3: the completed-count never exceeds the maximum, the maximum is the
\* number of jobs of the current run, and the completed-count decreases
\* only in the step that starts a run.
C3_ProgressMonotone ==
    /\ []C3_State
    /\ [][progress_var' >= progress_var \/ Len(run') > Len(run)]_vars

\* C4: no failure of a per-file job reaches the driver: a driver never dies
\* of a job, a driver inside its loop can always take a further step, and
\* when the loop is over every file has its own outcome, Ok for every file
\* that converts and Skipped or Error for every file that does not.
C4_FailureIsolation ==
    \A b \in Runs :
        /\ run[b].fault # "job"
        /\ run[b].pc = "loop" =>
               ENABLED (\/ jpeg_step(b)
                        \/ dz8_step(b)
                        \/ \E k \in 1..MaxFiles :
                               job_start(b, k) \/ job_finish(b, k) \/ dz7_collect(b, k))
        /\ loop_over(b) =>
               \A k \in 1..Len(run[b].files) :
                   IF SourceState(run[b].files[k]) = "good"
                   THEN run[b].out[k] = "ok"
                   ELSE run[b].out[k] \in {"skip", "err"}

\* a failing file came first and the file after it was still converted
C4_Witness ==
    \E b \in Runs :
        /\ run[b].pc = "done"
        /\ Len(run[b].files) = 2
        /\ run[b].out[1] = "err"
        /\ run[b].out[2] = "ok"

\* C5: a run whose driver has ended and whose callbacks have all been
\* applied has shown exactly one summary; no run shows more than one, and
\* none before all its files are tallied.
C5_OneSummary ==
    \A b \in Runs :
        /\ run[b].shown <= 1
        /\ run[b].shown = 1 => run[b].i = Len(run[b].files) /\ run[b].pc = "done"
        /\ (finished(b) /\ ~pending(b, AllKinds)) => run[b].shown = 1

\* C6: no two batch drivers are active at once.
C6_BusyGuard ==
    Cardinality({b \in Runs : ~finished(b)}) <= 1

\* C7: with the backend unavailable, create_deepzoom shows one
\* precondition notification and changes nothing else.
C7_NoBackend ==
    [][(~HAS_DEEPZOOM /\ create_deepzoom) =>
           /\ errbox' = [errbox EXCEPT !.nodz = @ + 1]
           /\ UNCHANGED <<run, uiq, made_dirs, progress_var, progress_max,
                          busy, elapsed_total, status_jpeg, status_dz,
                          input_files, output_dir>>]_vars

\* the notification was shown in a session with files and a folder chosen
C7_Witness ==
    /\ ~HAS_DEEPZOOM
    /\ errbox.nodz = 1
    /\ input_files # <<>>
    /\ output_dir # <<>>
    /\ run = <<>>

\* C8: with no file or no output directory chosen, save_jpeg and
\* create_deepzoom show one error and start nothing.
C8_InvalidSelection ==
    [][((input_files = <<>> \/ output_dir = <<>>) /\ (save_jpeg \/ create_deepzoom)) =>
           /\ errbox'.missing + errbox'.nodz = errbox.missing + errbox.nodz + 1
           /\ UNCHANGED <<run, uiq, made_dirs, progress_var, progress_max,
                          busy, elapsed_total, status_jpeg, status_dz,
                          input_files, output_dir>>]_vars

\* the error was shown with files chosen and no output directory
C8_Witness ==
    /\ errbox.missing = 1
    /\ input_files # <<>>
    /\ output_dir = <<>>
    /\ run = <<>>

\* C9: with a non-empty list and no network path among the inputs and the
\* output directory, both versions return max(1, min(n, cores div 2)),
\* which lies between 1 and n.
C9_WorkerCount ==
    (input_files # <<>> /\ ~HasNetworkPath) =>
        /\ aw_res7 # 0 => aw_res7 = ExpectedWorkers
        /\ aw_res8 # 0 => aw_res8 = ExpectedWorkers
        /\ aw_res7 # 0 => (1 <= aw_res7 /\ aw_res7 <= Len(input_files))
        /\ (aw_res7 # 0 /\ aw_res8 # 0) => aw_res7 = aw_res8

\* two local files on a host whose core count is unknown: two workers
C9_Witness ==
    /\ os_cpu_count = 0
    /\ input_files = <<PathGood, PathRel>>
    /\ cwd = LocalCwd
    /\ output_dir = LocalOut
    /\ aw_res7 = 2
    /\ aw_res8 = 2

\* C10: with a network path among the inputs or as the output directory
\* both versions return 1; a path whose classification fails counts as
\* local and leaves the count at max(1, min(n, cores div 2)).
C10_NetworkSerial ==
    input_files # <<>> =>
        IF HasNetworkPath
        THEN (aw_res7 # 0 => aw_res7 = 1) /\ (aw_res8 # 0 => aw_res8 = 1)
        ELSE (\E n \in 1..Len(input_files) : Unclassifiable(input_files[n])) =>
                 /\ aw_res7 # 0 => aw_res7 = ExpectedWorkers
                 /\ aw_res8 # 0 => aw_res8 = ExpectedWorkers

\* a forward-slash UNC input on a six-core host serialises both versions
C10_Witness ==
    /\ os_cpu_count = 6
    /\ input_files = <<PathGood, PathUnc>>
    /\ cwd = LocalCwd
    /\ output_dir = LocalOut
    /\ aw_res7 = 1
    /\ aw_res8 = 1

\* number of the files that os.path.exists and the decoder find in state st
CountState(files, st) ==
    Cardinality({k \in 1..Len(files) : SourceState(files[k]) = st})

\* C11: in a JPEG batch a missing source is reported as skipped and counted
\* in errors, never in converted: after every iteration converted is the
\* number of files written and errors the number of missing plus failed
\* files, and the summary holds these two numbers.
C11_JpegMissingCounted ==
    \A b \in Runs :
        run[b].mode = "jpeg" /\ run[b].pc # "start" =>
            LET seen == SubSeq(run[b].files, 1, run[b].i)
            IN  /\ \A k \in 1..run[b].i :
                       SourceState(run[b].files[k]) = "missing" => run[b].out[k] = "skip"
                /\ run[b].ok = CountState(seen, "good")
                /\ run[b].errors = CountState(seen, "missing") + CountState(seen, "bad")
                /\ loop_over(b) => run[b].i = Len(run[b].files)
                /\ run[b].summary # <<>> =>
                       run[b].summary =
                           <<CountState(run[b].files, "good"),
                             CountState(run[b].files, "missing")
                                 + CountState(run[b].files, "bad")>>

\* a JPEG batch of a missing file followed by a good one has reported
\* converted = 1, errors = 1
C11_Witness ==
    \E b \in Runs :
        /\ run[b].mode = "jpeg"
        /\ run[b].files = <<PathMissing, PathGood>>
        /\ run[b].summary = <<1, 1>>
        /\ run[b].shown = 1

\* C12: in a DeepZoom batch a missing source ends as Skipped without
\* creator.create being called for it, is counted in skipped and in neither
\* created nor errors, and the other files are still processed.
C12_DzMissingSkipped ==
    \A b \in Runs :
        run[b].mode = "dz" /\ run[b].pc # "start" =>
            /\ \A k \in 1..Len(run[b].files) :
                   ( /\ SourceState(run[b].files[k]) = "missing"
                     /\ run[b].out[k] \in {"ok", "skip", "err"} )
                   => run[b].out[k] = "skip" /\ k \notin run[b].invoked
            /\ loop_over(b) =>
                   /\ run[b].i = Len(run[b].files)
                   /\ run[b].ok = CountState(run[b].files, "good")
                   /\ run[b].skipped = CountState(run[b].files, "missing")
                   /\ run[b].errors = CountState(run[b].files, "bad")

\* C13: every character of the output stem is alphanumeric or one of
\* ".", "_", "-" and space: the stem holds no separator and no control
\* character.
C13_SafeChars ==
    safe # <<>> =>
        \A i \in 1..Len(safe[1]) : safe[1][i] \in {"a", "1", ".", "_", "-", " "}

\* a name with a control character and a punctuation character in its
\* stem has had both replaced
C13_Witness ==
    /\ input_files = <<<<"C:", "/", "a", "TAB", "#", "1">>>>
    /\ safe = <<<<"a", "_", "_", "1">>>>

\* C14: a path whose basename is non-empty has a non-empty output stem.
C14_StemNonEmpty ==
    LET path == input_files[1]
    IN  (safe # <<>> /\ path[Len(path)] \notin {"/", BS}) => safe[1] # <<>>

\* the lines run b has written through sys.stdout
lines_of(b, stream) == {l \in stream : l[1] = b}

\* C15: the transcript v8 writes when run b completes holds every status
\* line of run b and no status line of an earlier run.
C15_PerRunTranscript ==
    [][\A b \in Runs :
           log_written(b) =>
               /\ \A n \in 0..Len(run[b].files) : LogLine(b, n) \in log_file_stream'
               /\ \A c \in 1..(b - 1) : lines_of(c, log_file_stream') = {}]_vars

\* the colour an RGBA or LA pixel shows where it is opaque
ColourOf(mode, p) ==
    IF mode = "RGBA" THEN <<p[1], p[2], p[3]>> ELSE <<p[1], p[1], p[1]>>

AlphaOf(p) == p[Len(p)]

\* C16: for an RGBA or LA image _ensure_rgb returns an RGB image of the
\* same size in which every fully transparent pixel is white and every
\* fully opaque pixel keeps its colour; an RGB image is returned unchanged
\* and every other mode is returned in RGB.
C16_EnsureRgb ==
    ensure_rgb_res # <<>> =>
        LET r == ensure_rgb_res[1]
        IN  /\ r.mode = "RGB"
            /\ r.size = img.size
            /\ Len(r.px) = Len(img.px)
            /\ \A i \in 1..Len(r.px) : Len(r.px[i]) = 3
            /\ img.mode = "RGB" => r = img
            /\ img.mode \in {"RGBA", "LA"} =>
                   \A i \in 1..Len(img.px) :
                       /\ AlphaOf(img.px[i]) = 0 => r.px[i] = <<255, 255, 255>>
                       /\ AlphaOf(img.px[i]) = 255 =>
                              r.px[i] = ColourOf(img.mode, img.px[i])

\* a transparent black pixel came out white beside an opaque pixel that
\* kept its colour
C16_Witness ==
    /\ img = [mode |-> "RGBA", size |-> <<2, 1>>,
              px |-> <<<<0, 0, 0, 0>>, <<200, 100, 0, 255>>>>]
    /\ ensure_rgb_res = <<[mode |-> "RGB", size |-> <<2, 1>>,
                           px |-> <<<<255, 255, 255>>, <<200, 100, 0>>>>]>>

\* what _auto_workers of the running version returns for a batch
AutoWorkersOf(b) ==
    IF version = 7 THEN auto_workers_v7(run[b].sel, run[b].made)
    ELSE auto_workers_v8(run[b].sel, run[b].made)

\* C17: the pool of a DeepZoom batch has as many workers as _auto_workers
\* returns for the batch's files and output directory, and never more jobs
\* of the batch execute at once; a JPEG batch has no two conversions
\* executing at once.
C17_PoolSize ==
    \A b \in Runs :
        IF run[b].mode = "dz"
        THEN /\ run[b].workers = AutoWorkersOf(b)
             /\ Cardinality(running(b)) <= run[b].workers
        ELSE run[b].workers = 1 /\ Cardinality(running(b)) <= 1

\* C18: progress, maximum, elapsed string, status strings and busy state
\* are written only by steps of the presentation context: the entry points
\* and the callbacks the main loop runs.
C18_UiWritesMarshalled ==
    [][ui_state' # ui_state => (ui_process \/ save_jpeg \/ create_deepzoom)]_vars

\* a job of run b has written its output file in this step
wrote_output(b) ==
    \/ (jpeg_step(b) \/ dz8_step(b)) /\ run'[b].ok > run[b].ok
    \/ \E k \in 1..MaxFiles : job_finish(b, k) /\ run'[b].out[k] = "ok"

C19_State ==
    \A b \in Runs :
        /\ run[b].pc # "start" => run[b].files = run[b].sel
        /\ Len(run[b].sel) = run[b].total

\* C19: the driver walks the file list selected when the batch was started,
\* its number of jobs is the maximum set at the start, and every output is
\* written to the directory chosen when the batch was started.
C19_Snapshot ==
    /\ []C19_State
    /\ [][\A b \in Runs : wrote_output(b) => output_dir = run[b].made]_vars

\* C20: in v7 the counters and the summary of a DeepZoom batch are those of
\* its file list whatever the order the jobs completed in, and the
\* completed-count ends at the number of files.
C20_OrderIndependent ==
    \A b \in Runs :
        (version = 7 /\ run[b].mode = "dz" /\ loop_over(b)) =>
            /\ run[b].ok = CountState(run[b].files, "good")
            /\ run[b].skipped = CountState(run[b].files, "missing")
            /\ run[b].errors = CountState(run[b].files, "bad")
            /\ Len(run[b].order) = Len(run[b].files)
            /\ run[b].summary # <<>> =>
                   run[b].summary = <<CountState(run[b].files, "good"),
                                      CountState(run[b].files, "missing"),
                                      CountState(run[b].files, "bad")>>
            /\ (b = Len(run) /\ ~pending(b, {"progress"})) =>
                   progress_var = Len(run[b].files)

\* the second job completed before the first and the summary is that of
\* the list
C20_Witness ==
    \E b \in Runs :
        /\ version = 7
        /\ run[b].mode = "dz"
        /\ run[b].files = <<PathGood, PathMissing>>
        /\ run[b].order = <<2, 1>>
        /\ run[b].summary = <<1, 1, 0>>
        /\ run[b].shown = 1
        /\ progress_var = 2

\* C21: no ImageCreator instance is used by more than one task of a
\* DeepZoom batch: two files for which creator.create was called were
\* given two different instances.
C21_OwnCreator ==
    \A b \in Runs :
        run[b].mode = "dz" =>
            \A j, k \in run[b].invoked :
                j # k => run[b].creator[j] # run[b].creator[k]

C22_State ==
    \A b \in Runs : b < Len(run) => ~pending(b, {"progress"})

\* C22: in v7 every batch that is started has its busy guard released in
\* the end; at the step that re-enables the entry points every progress
\* callback has been applied and the completed-count equals the maximum;
\* and once a later batch has reset the progress, no progress callback of
\* an earlier batch is left to be applied.
C22_BusyReleased ==
    /\ []C22_State
    /\ [][(busy /\ ~busy') =>
              /\ progress_var' = progress_max'
              /\ \A n \in 1..Len(uiq') : uiq'[n].kind # "progress"]_vars
    /\ (busy ~> ~busy)

\* a batch of two files has had its guard released with the bar full
C22_Witness ==
    \E b \in Runs :
        /\ version = 7
        /\ run[b].total = 2
        /\ run[b].pc \in {"fin3", "done"}
        /\ ~pending(b, {"progress", "elapsed", "unbusy"})
        /\ ~busy
        /\ progress_var = 2
        /\ progress_max = 2

\* C23: the distinct files of one selection are given pairwise distinct
\* output paths, so no two jobs of a batch write the same file.
C23_DistinctOutputs ==
    \A j, k \in 1..Len(out_paths) : j # k => out_paths[j] # out_paths[k]

====
